---- MODULE Spec2Model ----
(***************************************************************************)
(* Legal Question Generator (src/app.py): the submission pipeline          *)
(* (extract, normalize, prompt, completion call, parse, render) and the    *)
(* regex-driven MCQ parser.                                                *)
(*                                                                         *)
(* Model output and parser strings are sequences of one-character strings. *)
(* PDF text is kept run-length encoded (a sequence of [c, n] runs, n >= 1,  *)
(* adjacent runs of different characters) so that the 15000-character      *)
(* budget and the 100-character threshold keep their real values.          *)
(***************************************************************************)
EXTENDS Integers, Sequences, FiniteSets, TLC

VARIABLES
    \* ---- parse_mcqs (src/app.py:81-116), one step per loop iteration
    raw_output, blocks, bi, block, lines, li,
    scenario, options, answer, explanation, state, mcqs, ppc,
    \* ---- submission pipeline (src/app.py:119-174)
    pc, pdf_file, n_questions, secrets, env, text, prompt, output,
    ui, shown, calls, net

parserVars == <<raw_output, blocks, bi, block, lines, li,
                scenario, options, answer, explanation, state, ppc>>

pipeVars == <<pc, pdf_file, n_questions, secrets, env, text, prompt, output,
              ui, shown, calls, net>>

vars == <<parserVars, mcqs, pipeVars>>

----------------------------------------------------------------------------
(* Bounds of the model *)

\* number of numbered blocks in a generated model output
MaxBlocks == 2

\* number of blocks of an output that are not of the commonest shapes
MaxOdd == 1

\* number of pages of an uploaded PDF
MaxPages == 2

----------------------------------------------------------------------------
(* Python string primitives on character sequences *)

\* Python's None, where a character sequence is expected
None == <<"None">>

Whitespace == {" ", "\n", "\t"}

DigitChars == {"0", "1", "2", "3", "4", "5", "6", "7", "8", "9"}

FirstNonWs(s) ==
    IF \E i \in 1..Len(s) : s[i] \notin Whitespace
    THEN CHOOSE i \in 1..Len(s) :
             s[i] \notin Whitespace /\ \A j \in 1..(i - 1) : s[j] \in Whitespace
    ELSE 0

LastNonWs(s) ==
    IF \E i \in 1..Len(s) : s[i] \notin Whitespace
    THEN CHOOSE i \in 1..Len(s) :
             s[i] \notin Whitespace /\ \A j \in (i + 1)..Len(s) : s[j] \in Whitespace
    ELSE 0

\* str.strip()
strip(s) == IF FirstNonWs(s) = 0 THEN <<>> ELSE SubSeq(s, FirstNonWs(s), LastNonWs(s))

\* str.startswith(m)
startswith(s, m) == Len(s) >= Len(m) /\ SubSeq(s, 1, Len(m)) = m

OccursAt(s, m, i) == i + Len(m) - 1 <= Len(s) /\ SubSeq(s, i, i + Len(m) - 1) = m

\* the first occurrence of m in s at or after `from`, or 0
FindFrom(s, m, from) ==
    IF \E i \in from..Len(s) : OccursAt(s, m, i)
    THEN CHOOSE i \in from..Len(s) :
             OccursAt(s, m, i) /\ \A j \in from..(i - 1) : ~OccursAt(s, m, j)
    ELSE 0

RECURSIVE ReplaceFrom(_, _, _)
ReplaceFrom(s, m, from) ==
    LET k == FindFrom(s, m, from) IN
    IF k = 0 THEN SubSeq(s, from, Len(s))
    ELSE SubSeq(s, from, k - 1) \o ReplaceFrom(s, m, k + Len(m))

\* str.replace(m, ""): every non-overlapping occurrence, left to right
remove_all(s, m) == ReplaceFrom(s, m, 1)

RECURSIVE SplitFrom(_, _, _)
SplitFrom(s, sep, from) ==
    LET k == FindFrom(s, sep, from) IN
    IF k = 0 THEN << SubSeq(s, from, Len(s)) >>
    ELSE << SubSeq(s, from, k - 1) >> \o SplitFrom(s, sep, k + Len(sep))

\* str.split('\n')
split_lines(s) == SplitFrom(s, <<"\n">>, 1)

RECURSIVE join(_, _)
join(sep, parts) ==
    IF parts = <<>> THEN <<>>
    ELSE IF Len(parts) = 1 THEN parts[1]
    ELSE parts[1] \o sep \o join(sep, Tail(parts))

----------------------------------------------------------------------------
(* re.split(r'\n?\*?\*?\d+\.\*?\*?\n?', raw_output)  -- src/app.py:83 *)

CharAt(s, k) == IF k >= 1 /\ k <= Len(s) THEN s[k] ELSE ""

RECURSIVE DigitsEnd(_, _)
DigitsEnd(s, k) == IF CharAt(s, k) \in DigitChars THEN DigitsEnd(s, k + 1) ELSE k

\* The index just after the delimiter that starts at i, or 0 when the pattern
\* does not match at i.  Every optional item is greedy, and no shorter choice
\* can succeed where the greedy one fails.
MatchEnd(s, i) ==
    LET p1 == IF CharAt(s, i) = "\n" THEN i + 1 ELSE i
        p2 == IF CharAt(s, p1) = "*" THEN p1 + 1 ELSE p1
        p3 == IF CharAt(s, p2) = "*" THEN p2 + 1 ELSE p2
        d  == DigitsEnd(s, p3)
        q1 == d + 1
        q2 == IF CharAt(s, q1) = "*" THEN q1 + 1 ELSE q1
        q3 == IF CharAt(s, q2) = "*" THEN q2 + 1 ELSE q2
        q4 == IF CharAt(s, q3) = "\n" THEN q3 + 1 ELSE q3
    IN  IF d > p3 /\ CharAt(s, d) = "." THEN q4 ELSE 0

\* the leftmost position at or after `from` where the delimiter matches, or 0
NextMatch(s, from) ==
    IF \E i \in from..Len(s) : MatchEnd(s, i) > 0
    THEN CHOOSE i \in from..Len(s) :
             MatchEnd(s, i) > 0 /\ \A j \in from..(i - 1) : MatchEnd(s, j) = 0
    ELSE 0

RECURSIVE ReSplitFrom(_, _)
ReSplitFrom(s, from) ==
    LET k == NextMatch(s, from) IN
    IF k = 0 THEN << SubSeq(s, from, Len(s)) >>
    ELSE << SubSeq(s, from, k - 1) >> \o ReSplitFrom(s, MatchEnd(s, k))

re_split(s) == ReSplitFrom(s, 1)

----------------------------------------------------------------------------
(* The line classifier of parse_mcqs -- src/app.py:94-108 *)

CorrectAnswerMarker ==
    <<"C", "o", "r", "r", "e", "c", "t", " ", "A", "n", "s", "w", "e", "r", ":">>

ExplanationMarker ==
    <<"E", "x", "p", "l", "a", "n", "a", "t", "i", "o", "n", ":">>

\* re.match(r"^[A-D][\).]", l)
IsOptionLabel(l) ==
    Len(l) >= 2 /\ l[1] \in {"A", "B", "C", "D"} /\ l[2] \in {")", "."}

IsAnswerLine(l) == startswith(l, CorrectAnswerMarker)

IsExplanationLine(l) == startswith(l, ExplanationMarker)

\* src/app.py:89-93
NewBlockState ==
    [scenario |-> <<>>, options |-> <<>>, answer |-> <<>>,
     explanation |-> <<>>, state |-> "scenario"]

\* mutant: a continuation line in state "options" is glued onto the last entry
ClassifyLine_Glue(st, line) ==
    LET l == strip(line) IN
    IF IsOptionLabel(l)
    THEN [st EXCEPT !.state = "options", !.options = Append(@, l)]
    ELSE IF IsAnswerLine(l)
    THEN [st EXCEPT !.answer = strip(remove_all(l, CorrectAnswerMarker)),
                    !.state = "answer"]
    ELSE IF IsExplanationLine(l)
    THEN [st EXCEPT !.explanation = strip(remove_all(l, ExplanationMarker)),
                    !.state = "explanation"]
    ELSE IF st.state = "scenario"
    THEN [st EXCEPT !.scenario = Append(@, l)]
    ELSE IF st.state = "options"
    THEN LET o == st.options
         IN  [st EXCEPT !.options = [o EXCEPT ![Len(o)] = o[Len(o)] \o <<"\n">> \o l]]
    ELSE st

\* mutant: continuation lines are collected into multi-line explanations
ClassifyLine_MultiLine(st, line) ==
    LET l == strip(line) IN
    IF IsOptionLabel(l)
    THEN [st EXCEPT !.state = "options", !.options = Append(@, l)]
    ELSE IF IsAnswerLine(l)
    THEN [st EXCEPT !.answer = strip(remove_all(l, CorrectAnswerMarker)),
                    !.state = "answer"]
    ELSE IF IsExplanationLine(l)
    THEN [st EXCEPT !.explanation = strip(remove_all(l, ExplanationMarker)),
                    !.state = "explanation"]
    ELSE IF st.state = "scenario"
    THEN [st EXCEPT !.scenario = Append(@, l)]
    ELSE IF st.state = "options"
    THEN [st EXCEPT !.options = Append(@, l)]
    ELSE IF st.state = "explanation"
    THEN [st EXCEPT !.explanation = @ \o <<" ">> \o l]
    ELSE st

\* One iteration of `for line in lines`
ClassifyLine(st, line) ==
    LET l == strip(line) IN
    IF IsOptionLabel(l)
    THEN [st EXCEPT !.state = "options", !.options = Append(@, l)]
    ELSE IF IsAnswerLine(l)
    THEN [st EXCEPT !.answer = strip(remove_all(l, CorrectAnswerMarker)),
                    !.state = "answer"]
    ELSE IF IsExplanationLine(l)
    THEN [st EXCEPT !.explanation = strip(remove_all(l, ExplanationMarker)),
                    !.state = "explanation"]
    ELSE IF st.state = "scenario"
    THEN [st EXCEPT !.scenario = Append(@, l)]
    ELSE IF st.state = "options"
    THEN [st EXCEPT !.options = Append(@, l)]
    ELSE st

\* mutant: a block is emitted when it has options or an answer
ShouldEmit_Or(opts, ans) == opts # <<>> \/ ans # <<>>

\* src/app.py:109  `if options and answer`
ShouldEmit(opts, ans) == opts # <<>> /\ ans # <<>>

\* src/app.py:110-115
MakeRecord(st) ==
    [scenario |-> join(<<" ">>, st.scenario), options |-> st.options,
     answer |-> st.answer, explanation |-> st.explanation]

\* src/app.py:86  `if not block or len(block) < 20`
MinBlockLen == 20

SkipBlock(b) == b = <<>> \/ Len(b) < MinBlockLen

RECURSIVE FoldLines(_, _, _)
FoldLines(st, ls, i) ==
    IF i > Len(ls) THEN st ELSE FoldLines(ClassifyLine(st, ls[i]), ls, i + 1)

RECURSIVE ParseBlocks(_, _, _)
ParseBlocks(bs, i, acc) ==
    IF i > Len(bs) THEN acc
    ELSE LET b  == strip(bs[i])
             st == FoldLines(NewBlockState, split_lines(b), 1)
         IN  IF SkipBlock(b) THEN ParseBlocks(bs, i + 1, acc)
             ELSE IF ShouldEmit(st.options, st.answer)
                  THEN ParseBlocks(bs, i + 1, Append(acc, MakeRecord(st)))
                  ELSE ParseBlocks(bs, i + 1, acc)

\* parse_mcqs as one call, as the pipeline uses it (src/app.py:143)
parse_mcqs(raw) == ParseBlocks(re_split(raw), 1, <<>>)

----------------------------------------------------------------------------
(* Model outputs handed to the parser *)

\* a letter that tells the blocks of one output apart
Tag(i) == <<"p", "q", "r", "s", "t", "u">>[i]

Txt(i) == <<Tag(i), "x", " ", "x", "x">>

OptLine(letter, sep, txt) == <<letter, sep, " ">> \o txt

AnsLine(txt) == CorrectAnswerMarker \o <<" ">> \o txt

ExpLine(txt) == ExplanationMarker \o <<" ">> \o txt

\* text with a digits-and-period sequence inside, e.g. "Article 21."
NumTxt(i) == <<Tag(i), "x", " ", "2", "1", ".", " ", "x", "x">>

\* text that begins like an initial, e.g. "A. K. Gopalan"
LabelTxt(i) == <<"A", ".", " ">> \o Txt(i)

\* Blocks in the format the prompt asks for: one scenario line, four option
\* lines A to D, one answer line, one explanation line.
WellFormedShapes ==
    {"wf", "wf_dots", "wf_num_scn", "wf_num_opt", "wf_num_exp",
     "wf_label_scn", "wf_blank_ans"}

OtherShapes ==
    {"no_ans", "no_opts", "cont_opt", "cont_ans", "opt_after_ans",
     "two_ans", "indented", "blank_lines", "short"}

Shapes == WellFormedShapes \cup OtherShapes

WellFormedLines(i, scn, sep, btxt, ans, exp) ==
    << scn, OptLine("A", sep, Txt(i)), OptLine("B", sep, btxt),
       OptLine("C", sep, Txt(i)), OptLine("D", sep, Txt(i)),
       AnsLine(ans), ExpLine(exp) >>

ShapeLines(sh, i) ==
    CASE sh = "wf" -> WellFormedLines(i, Txt(i), ")", Txt(i), <<"B">>, Txt(i))
      [] sh = "wf_dots" -> WellFormedLines(i, Txt(i), ".", Txt(i), <<"C">>, Txt(i))
      [] sh = "wf_num_scn" -> WellFormedLines(i, NumTxt(i), ")", Txt(i), <<"B">>, Txt(i))
      [] sh = "wf_num_opt" -> WellFormedLines(i, Txt(i), ")", NumTxt(i), <<"B">>, Txt(i))
      [] sh = "wf_num_exp" -> WellFormedLines(i, Txt(i), ")", Txt(i), <<"B">>, NumTxt(i))
      [] sh = "wf_label_scn" -> WellFormedLines(i, LabelTxt(i), ")", Txt(i), <<"B">>, Txt(i))
      [] sh = "wf_blank_ans" -> WellFormedLines(i, Txt(i), ")", Txt(i), <<" ">>, Txt(i))
      [] sh = "no_ans" ->
            << Txt(i), OptLine("A", ")", Txt(i)), OptLine("B", ")", Txt(i)),
               ExpLine(Txt(i)) >>
      [] sh = "no_opts" -> << Txt(i), Txt(i), AnsLine(<<"B">>), ExpLine(Txt(i)) >>
      [] sh = "cont_opt" ->
            << Txt(i), OptLine("A", ")", Txt(i)), Txt(i), OptLine("B", ")", Txt(i)),
               <<"x", "x">>, AnsLine(<<"A">>), ExpLine(Txt(i)) >>
      [] sh = "cont_ans" ->
            << Txt(i), OptLine("A", ")", Txt(i)), OptLine("B", ")", Txt(i)),
               AnsLine(<<"A">>), <<"m", "o", "r", "e">>, ExpLine(Txt(i)),
               <<"m", "o", "r", "e">> >>
      [] sh = "opt_after_ans" ->
            << Txt(i), OptLine("A", ")", Txt(i)), AnsLine(<<"A">>), <<"x">>,
               OptLine("B", ")", Txt(i)), <<"y", "y">>, ExpLine(Txt(i)) >>
      [] sh = "two_ans" ->
            << Txt(i), OptLine("A", ")", Txt(i)), AnsLine(<<"A">>),
               AnsLine(<<>>), ExpLine(Txt(i)) >>
      [] sh = "indented" ->
            << Txt(i), <<" ", " ">> \o OptLine("A", ")", Txt(i)),
               <<"\t">> \o OptLine("B", ".", Txt(i)) \o <<" ">>,
               <<" ">> \o AnsLine(<<"B", " ">>), <<" ">> \o ExpLine(Txt(i)) >>
      [] sh = "blank_lines" ->
            << Txt(i), <<>>, OptLine("A", ")", Txt(i)), OptLine("B", ")", Txt(i)),
               <<>>, AnsLine(<<"B">>), <<>>, ExpLine(Txt(i)) >>
      [] sh = "short" -> << <<"A", ")">>, CorrectAnswerMarker \o <<"B">> >>

ShortPreamble == <<"H", "e", "r", "e", ":", "\n">>

LongPreamble ==
    <<"H", "e", "r", "e", " ", "a", "r", "e", " ", "t", "h", "e", " ",
      "q", "u", "e", "s", "t", "i", "o", "n", "s", ":", "\n", "\n">>

\* what comes before the first block, and how the blocks are numbered
Headers ==
    { [pre |-> <<>>, style |-> "plain"],
      [pre |-> <<>>, style |-> "bold"],
      [pre |-> ShortPreamble, style |-> "plain"],
      [pre |-> LongPreamble, style |-> "own_line"] }

\* the numbered-list marker in front of block i
Marker(style, i) ==
    LET d == <<"1", "2", "3", "4", "5", "6">>[i] IN
    CASE style = "plain" -> <<d, ".", " ">>
      [] style = "bold" -> <<"*", "*", d, ".", "*", "*", " ">>
      [] style = "own_line" -> <<d, "0", ".", "\n">>

RECURSIVE BuildBlocks(_, _, _)
BuildBlocks(style, shapes, i) ==
    IF i > Len(shapes) THEN <<>>
    ELSE Marker(style, i) \o join(<<"\n">>, ShapeLines(shapes[i], i))
         \o (IF i < Len(shapes) THEN <<"\n", "\n">> ELSE <<>>)
         \o BuildBlocks(style, shapes, i + 1)

Build(in) == in.pre \o BuildBlocks(in.style, in.shapes, 1)

\* at most MaxOdd blocks of an output depart from the two commonest shapes
CommonShapes == {"wf", "no_ans"}

ShapeSeqs ==
    { q \in UNION {[1..n -> Shapes] : n \in 0..MaxBlocks} :
        Cardinality({k \in DOMAIN q : q[k] \notin CommonShapes}) <= MaxOdd }

Inputs ==
    { [pre |-> h.pre, style |-> h.style, shapes |-> q] : h \in Headers, q \in ShapeSeqs }

RawOutputs == {Build(in) : in \in Inputs}

----------------------------------------------------------------------------
(* Run-length encoded text: extracted PDF text *)

Run(c, n) == [c |-> c, n |-> n]

IsWsRun(r) == r.c \in Whitespace

\* string concatenation
TCat(a, b) ==
    IF a = <<>> THEN b
    ELSE IF b = <<>> THEN a
    ELSE IF a[Len(a)].c = b[1].c
         THEN SubSeq(a, 1, Len(a) - 1) \o <<Run(b[1].c, a[Len(a)].n + b[1].n)>> \o Tail(b)
         ELSE a \o b

RECURSIVE TLen(_)
TLen(t) == IF t = <<>> THEN 0 ELSE t[1].n + TLen(Tail(t))

\* the last character of a non-empty text
TLast(t) == t[Len(t)].c

\* the text without its last character
TDropLast(t) ==
    IF t[Len(t)].n = 1 THEN SubSeq(t, 1, Len(t) - 1)
    ELSE [t EXCEPT ![Len(t)] = Run(@.c, @.n - 1)]

\* the text without its first character
TDropFirst(t) ==
    IF t = <<>> THEN t
    ELSE IF t[1].n = 1 THEN Tail(t)
    ELSE [t EXCEPT ![1] = Run(@.c, @.n - 1)]

RECURSIVE WordsFrom(_, _, _, _)
WordsFrom(t, i, cur, acc) ==
    IF i > Len(t) THEN (IF cur = <<>> THEN acc ELSE Append(acc, cur))
    ELSE IF IsWsRun(t[i])
         THEN WordsFrom(t, i + 1, <<>>, IF cur = <<>> THEN acc ELSE Append(acc, cur))
         ELSE WordsFrom(t, i + 1, Append(cur, t[i]), acc)

\* text.split(): the maximal runs of non-whitespace characters
tsplit(t) == WordsFrom(t, 1, <<>>, <<>>)

RECURSIVE tjoin(_)
tjoin(words) ==
    IF words = <<>> THEN <<>>
    ELSE IF Len(words) = 1 THEN words[1]
    ELSE TCat(TCat(words[1], <<Run(" ", 1)>>), tjoin(Tail(words)))

\* src/app.py:32-33
clean_text(t) == tjoin(tsplit(t))

RECURSIVE TakeFrom(_, _, _)
TakeFrom(t, i, k) ==
    IF i > Len(t) \/ k <= 0 THEN <<>>
    ELSE IF t[i].n <= k THEN <<t[i]>> \o TakeFrom(t, i + 1, k - t[i].n)
    ELSE <<Run(t[i].c, k)>>

\* src/app.py:10
MAX_TOKENS == 15000

\* mutant: the slice starts at index 1, text[1:max_chars]
truncate_text_FromOne(t, max_chars) == TakeFrom(TDropFirst(t), 1, max_chars - 1)

\* src/app.py:35-36  text[:max_chars]
truncate_text(t, max_chars) == TakeFrom(t, 1, max_chars)

\* the normalizer as the pipeline applies it (src/app.py:127-128)
normalize(t) == truncate_text(clean_text(t), MAX_TOKENS)

----------------------------------------------------------------------------
(* Uploaded PDFs and extract_text_from_pdf -- src/app.py:19-30 *)

\* page.extract_text() returned None
NoText == <<Run("None", 0)>>

PageTexts ==
    { NoText,
      <<Run("x", 14999)>>,
      <<Run(" ", 1), Run("y", 5)>>,
      <<Run("x", 60), Run(" ", 1), Run("\n", 2), Run(" ", 1), Run("x", 60), Run(" ", 1)>> }

\* where a strategy raises: never, on opening the file, or on a page
FailPoints(n) ==
    {[at |-> "never", page |-> 0], [at |-> "open", page |-> 0]}
        \cup {[at |-> "page", page |-> k] : k \in 1..n}

Pdfs ==
    UNION { { [uploaded |-> TRUE, pages |-> pg, plumber |-> pf, pypdf |-> sf] :
                pg \in [1..n -> PageTexts],
                pf \in FailPoints(n),
                sf \in FailPoints(n) } : n \in 0..MaxPages }

NoPdf ==
    [uploaded |-> FALSE, pages |-> <<>>, plumber |-> [at |-> "never", page |-> 0],
     pypdf |-> [at |-> "never", page |-> 0]]

\* page.extract_text() or ""
OrEmpty(t) == IF t = NoText THEN <<>> ELSE t

\* text += page.extract_text() or ""   for pages i..n
RECURSIVE AddPages(_, _, _, _)
AddPages(acc, pages, i, n) ==
    IF i > n THEN acc ELSE AddPages(TCat(acc, OrEmpty(pages[i])), pages, i + 1, n)

\* the number of pages a strategy gets through before it raises
PagesDone(fail, n) ==
    IF fail.at = "never" THEN n
    ELSE IF fail.at = "open" THEN 0
    ELSE fail.page - 1

\* src/app.py:19-30.  `text` keeps what the first strategy added before it
\* raised; an exception of the second strategy leaves the function.
extract_text_from_pdf(pdf) ==
    LET n == Len(pdf.pages)
        first == AddPages(<<>>, pdf.pages, 1, PagesDone(pdf.plumber, n))
    IN  IF pdf.plumber.at = "never"
        THEN [raised |-> FALSE, text |-> first]
        ELSE IF pdf.pypdf.at = "never"
             THEN [raised |-> FALSE, text |-> AddPages(first, pdf.pages, 1, n)]
             ELSE [raised |-> TRUE, text |-> <<>>]

----------------------------------------------------------------------------
(* Prompt and completion call -- src/app.py:38-78 *)

NoPrompt == [text |-> <<>>, n |-> 0]

\* src/app.py:38-56: the template around the text and the question count
build_prompt(extracted_text, n) == [text |-> extracted_text, n |-> n]

ApiKey == <<"k", "e", "y">>

\* a secrets entry or environment variable: unset, empty, or set
KeyValues == {None, <<>>, ApiKey}

\* src/app.py:59-60
get_groq_api_key(sec, en) == IF sec # None THEN sec ELSE en

\* `not api_key`
Falsy(v) == v = None \/ v = <<>>

\* Contents the completion service answers with
ModelOutputs ==
    { Build([pre |-> LongPreamble, style |-> "plain", shapes |-> <<>>]),
      Build([pre |-> <<>>, style |-> "plain", shapes |-> <<"wf">>]),
      Build([pre |-> ShortPreamble, style |-> "bold", shapes |-> <<"wf", "no_ans">>]),
      Build([pre |-> <<>>, style |-> "plain", shapes |-> <<"no_ans">>]),
      Build([pre |-> <<>>, style |-> "plain", shapes |-> <<"cont_opt", "wf_num_opt">>]) }

Responses ==
    {[kind |-> "raise", content |-> None], [kind |-> "empty", content |-> None],
     [kind |-> "content", content |-> <<" ", "\n">>]}
        \cup {[kind |-> "content", content |-> <<"\n">> \o o \o <<"\n", " ">>] :
                 o \in ModelOutputs}

\* mutant: the request is sent whatever the key is
call_groq_api_NoGuard(prm, sec, en, resp) ==
    IF resp.kind = "raise"
    THEN [config_error |-> FALSE, raised |-> TRUE, net |-> 1, content |-> None]
    ELSE IF resp.kind = "content" /\ resp.content # <<>>
         THEN [config_error |-> FALSE, raised |-> FALSE, net |-> 1,
               content |-> strip(resp.content)]
         ELSE [config_error |-> FALSE, raised |-> FALSE, net |-> 1, content |-> None]

\* src/app.py:62-78.  resp is what client.chat.completions.create does.
call_groq_api(prm, sec, en, resp) ==
    IF Falsy(get_groq_api_key(sec, en))
    THEN [config_error |-> TRUE, raised |-> FALSE, net |-> 0, content |-> None]
    ELSE IF resp.kind = "raise"
    THEN [config_error |-> FALSE, raised |-> TRUE, net |-> 1, content |-> None]
    ELSE IF resp.kind = "content" /\ resp.content # <<>>
         THEN [config_error |-> FALSE, raised |-> FALSE, net |-> 1,
               content |-> strip(resp.content)]
         ELSE [config_error |-> FALSE, raised |-> FALSE, net |-> 1, content |-> None]

----------------------------------------------------------------------------
(* Rendering and export -- src/app.py:145-170 *)

RECURSIVE IntStr(_)
IntStr(i) ==
    LET d == <<"0", "1", "2", "3", "4", "5", "6", "7", "8", "9">>[(i % 10) + 1]
    IN  IF i < 10 THEN <<d>> ELSE IntStr(i \div 10) \o <<d>>

RECURSIVE ConcatAll(_)
ConcatAll(parts) == IF parts = <<>> THEN <<>> ELSE parts[1] \o ConcatAll(Tail(parts))

\* src/app.py:158-166
mcqs_to_md(m) ==
    ConcatAll([i \in DOMAIN m |->
        <<"#", "#", "#", " ", "Q">> \o IntStr(i) \o <<":", " ">> \o m[i].scenario \o <<"\n">>
        \o ConcatAll([k \in DOMAIN m[i].options |-> m[i].options[k] \o <<"\n">>])
        \o <<"*", "*">> \o CorrectAnswerMarker \o <<"*", "*", " ">> \o m[i].answer \o <<"\n">>
        \o <<"*", "*">> \o ExplanationMarker \o <<"*", "*", " ">> \o m[i].explanation
        \o <<"\n", "\n">>])

\* src/app.py:150-155: one expander per record
Expanders(m) ==
    [i \in DOMAIN m |->
        [title |-> i, scenario |-> m[i].scenario,
         options |-> join(<<"\n">>, m[i].options),
         answer |-> m[i].answer, explanation |-> m[i].explanation]]

NothingShown == [code |-> None, count |-> 0, expanders |-> <<>>, downloads |-> <<>>]

\* mutant: the raw output is shown whether or not records were parsed
Render_AlwaysRaw(out, m) ==
    IF m = <<>>
    THEN [code |-> out, count |-> 0, expanders |-> <<>>, downloads |-> <<>>]
    ELSE [code |-> out, count |-> Len(m), expanders |-> Expanders(m),
          downloads |-> << [file_name |-> "mcqs.md", data |-> mcqs_to_md(m)],
                           [file_name |-> "mcqs.txt", data |-> mcqs_to_md(m)] >>]

\* src/app.py:145-170
Render(out, m) ==
    IF m = <<>>
    THEN [code |-> out, count |-> 0, expanders |-> <<>>, downloads |-> <<>>]
    ELSE [code |-> None, count |-> Len(m), expanders |-> Expanders(m),
          downloads |-> << [file_name |-> "mcqs.md", data |-> mcqs_to_md(m)],
                           [file_name |-> "mcqs.txt", data |-> mcqs_to_md(m)] >>]

----------------------------------------------------------------------------
(* The submission pipeline, one script run per form interaction             *)
(* -- src/app.py:119-174                                                    *)

MinTextLen == 100

\* mutant: only an empty text is insufficient
Insufficient_EmptyOnly(t) == t = <<>>

\* src/app.py:129  `if not text or len(text) < 100`
Insufficient(t) == t = <<>> \/ TLen(t) < MinTextLen

QuestionCounts == {5, 30}

ParserIdle ==
    /\ blocks = <<>> /\ bi = 0 /\ block = <<>> /\ lines = <<>> /\ li = 0
    /\ scenario = <<>> /\ options = <<>> /\ answer = <<>> /\ explanation = <<>>
    /\ state = "scenario"

\* a script run that found nothing to do: src/app.py:173-174
PipeIdle ==
    /\ pc = "idle" /\ pdf_file = NoPdf /\ n_questions = 10
    /\ text = <<>> /\ prompt = NoPrompt /\ output = None
    /\ ui = <<"info:upload">> /\ shown = NothingShown /\ calls = <<>> /\ net = 0

runVars == <<raw_output, blocks, bi, block, lines, li, scenario, options, answer,
             explanation, state, ppc, secrets, env>>

\* a form interaction starts a new run of the script, which draws the page anew
StartRun ==
    /\ pc \in {"idle", "crashed"}
    /\ pc' = "form"
    /\ pdf_file' = NoPdf
    /\ text' = <<>> /\ prompt' = NoPrompt /\ output' = None /\ mcqs' = <<>>
    /\ ui' = <<>> /\ shown' = NothingShown /\ calls' = <<>> /\ net' = 0
    /\ UNCHANGED <<n_questions, runVars>>

\* src/app.py:119-124: the form was submitted with a file
Submit ==
    /\ pc = "form"
    /\ \E f \in Pdfs, n \in QuestionCounts :
          /\ pdf_file' = f
          /\ n_questions' = n
    /\ pc' = "extract"
    /\ UNCHANGED <<text, prompt, output, mcqs, ui, shown, calls, net, runVars>>

\* src/app.py:124, 173-174: no file, or no submission
NoSubmission ==
    /\ pc = "form"
    /\ ui' = Append(ui, "info:upload")
    /\ pc' = "idle"
    /\ UNCHANGED <<pdf_file, n_questions, text, prompt, output, mcqs, shown, calls,
                   net, runVars>>

\* src/app.py:125-126
Extract ==
    /\ pc = "extract"
    /\ LET r == extract_text_from_pdf(pdf_file) IN
          /\ text' = r.text
          /\ pc' = IF r.raised THEN "crashed" ELSE "normalize"
    /\ ui' = Append(ui, "spinner:extract")
    /\ calls' = Append(calls, "extract_text_from_pdf")
    /\ UNCHANGED <<pdf_file, n_questions, prompt, output, mcqs, shown, net, runVars>>

\* src/app.py:127-128
Normalize ==
    /\ pc = "normalize"
    /\ text' = truncate_text(clean_text(text), MAX_TOKENS)
    /\ calls' = calls \o <<"clean_text", "truncate_text">>
    /\ pc' = "check"
    /\ UNCHANGED <<pdf_file, n_questions, prompt, output, mcqs, ui, shown, net, runVars>>

\* src/app.py:129-130
RejectText ==
    /\ pc = "check"
    /\ Insufficient(text)
    /\ ui' = Append(ui, "error:insufficient")
    /\ pc' = "idle"
    /\ UNCHANGED <<pdf_file, n_questions, text, prompt, output, mcqs, shown, calls,
                   net, runVars>>

\* src/app.py:131-133
BuildPrompt ==
    /\ pc = "check"
    /\ ~Insufficient(text)
    /\ ui' = Append(ui, "success:extracted")
    /\ prompt' = build_prompt(text, n_questions)
    /\ calls' = Append(calls, "build_prompt")
    /\ pc' = "call"
    /\ UNCHANGED <<pdf_file, n_questions, text, output, mcqs, shown, net, runVars>>

\* src/app.py:134-139
CallApi ==
    /\ pc = "call"
    /\ \E resp \in Responses :
          LET r == call_groq_api(prompt, secrets, env, resp) IN
          /\ output' = IF r.raised THEN None ELSE r.content
          /\ net' = net + r.net
          /\ ui' = ui \o <<"spinner:generate">>
                      \o (IF r.config_error THEN <<"error:config">> ELSE <<>>)
                      \o (IF r.raised THEN <<"error:api">> ELSE <<>>)
    /\ calls' = Append(calls, "call_groq_api")
    /\ pc' = "handle"
    /\ UNCHANGED <<pdf_file, n_questions, text, prompt, mcqs, shown, runVars>>

\* src/app.py:141, 171-172
ReportNoOutput ==
    /\ pc = "handle"
    /\ Falsy(output)
    /\ ui' = Append(ui, "error:generate")
    /\ pc' = "idle"
    /\ UNCHANGED <<pdf_file, n_questions, text, prompt, output, mcqs, shown, calls,
                   net, runVars>>

\* src/app.py:141-143
ParseOutput ==
    /\ pc = "handle"
    /\ ~Falsy(output)
    /\ ui' = Append(ui, "success:generated")
    /\ mcqs' = parse_mcqs(output)
    /\ calls' = Append(calls, "parse_mcqs")
    /\ pc' = "render"
    /\ UNCHANGED <<pdf_file, n_questions, text, prompt, output, shown, net, runVars>>

\* src/app.py:145-170
RenderOutput ==
    /\ pc = "render"
    /\ LET r == Render(output, mcqs) IN
          /\ shown' = r
          /\ ui' = ui \o (IF r.code # None THEN <<"warning:parse", "code">> ELSE <<>>)
                      \o (IF r.expanders # <<>>
                          THEN <<"markdown:count", "expanders", "download:md",
                                 "download:txt">>
                          ELSE <<>>)
    /\ calls' = Append(calls, "render")
    /\ pc' = "idle"
    /\ UNCHANGED <<pdf_file, n_questions, text, prompt, output, mcqs, net, runVars>>

Init ==
    /\ PipeIdle
    /\ secrets \in KeyValues
    /\ env \in KeyValues
    /\ raw_output = <<>>
    /\ ppc = "idle"
    /\ mcqs = <<>>
    /\ ParserIdle

Next ==
    \/ StartRun
    \/ Submit
    \/ NoSubmission
    \/ Extract
    \/ Normalize
    \/ RejectText
    \/ BuildPrompt
    \/ CallApi
    \/ ReportNoOutput
    \/ ParseOutput
    \/ RenderOutput

Spec == Init /\ [][Next]_vars

----------------------------------------------------------------------------
(* parse_mcqs, one loop iteration per step -- src/app.py:81-116 *)

\* src/app.py:82-83
Split ==
    /\ ppc = "split"
    /\ blocks' = re_split(raw_output)
    /\ bi' = 0
    /\ mcqs' = <<>>
    /\ ppc' = "block"
    /\ UNCHANGED <<raw_output, block, lines, li, scenario, options, answer,
                   explanation, state, pipeVars>>

\* src/app.py:84-87: the next block is too short and is skipped
SkipShortBlock ==
    /\ ppc = "block"
    /\ bi < Len(blocks)
    /\ SkipBlock(strip(blocks[bi + 1]))
    /\ bi' = bi + 1
    /\ block' = strip(blocks[bi + 1])
    /\ UNCHANGED <<raw_output, blocks, lines, li, scenario, options, answer,
                   explanation, state, mcqs, ppc, pipeVars>>

\* src/app.py:84-93: the next block is taken up
BeginBlock ==
    /\ ppc = "block"
    /\ bi < Len(blocks)
    /\ ~SkipBlock(strip(blocks[bi + 1]))
    /\ bi' = bi + 1
    /\ block' = strip(blocks[bi + 1])
    /\ lines' = split_lines(strip(blocks[bi + 1]))
    /\ li' = 0
    /\ scenario' = NewBlockState.scenario
    /\ options' = NewBlockState.options
    /\ answer' = NewBlockState.answer
    /\ explanation' = NewBlockState.explanation
    /\ state' = NewBlockState.state
    /\ ppc' = "line"
    /\ UNCHANGED <<raw_output, blocks, mcqs, pipeVars>>

\* src/app.py:94-108
ReadLine ==
    /\ ppc = "line"
    /\ li < Len(lines)
    /\ LET st == ClassifyLine([scenario |-> scenario, options |-> options,
                               answer |-> answer, explanation |-> explanation,
                               state |-> state], lines[li + 1])
       IN  /\ scenario' = st.scenario
           /\ options' = st.options
           /\ answer' = st.answer
           /\ explanation' = st.explanation
           /\ state' = st.state
    /\ li' = li + 1
    /\ UNCHANGED <<raw_output, blocks, bi, block, lines, mcqs, ppc, pipeVars>>

\* src/app.py:109-115
EndBlock ==
    /\ ppc = "line"
    /\ li = Len(lines)
    /\ mcqs' = IF ShouldEmit(options, answer)
               THEN Append(mcqs, MakeRecord([scenario |-> scenario, options |-> options,
                                             answer |-> answer,
                                             explanation |-> explanation]))
               ELSE mcqs
    /\ ppc' = "block"
    /\ UNCHANGED <<raw_output, blocks, bi, block, lines, li, scenario, options,
                   answer, explanation, state, pipeVars>>

\* src/app.py:116
Return ==
    /\ ppc = "block"
    /\ bi = Len(blocks)
    /\ ppc' = "done"
    /\ UNCHANGED <<raw_output, blocks, bi, block, lines, li, scenario, options,
                   answer, explanation, state, mcqs, pipeVars>>

InitParse ==
    /\ raw_output \in RawOutputs
    /\ ppc = "split"
    /\ mcqs = <<>>
    /\ ParserIdle
    /\ PipeIdle
    /\ secrets = None
    /\ env = None

NextParse == Split \/ SkipShortBlock \/ BeginBlock \/ ReadLine \/ EndBlock \/ Return

SpecParse == InitParse /\ [][NextParse]_vars

\* the stepped parser and the one-call parser agree
ParseAgrees == ppc = "done" => mcqs = parse_mcqs(raw_output)

----------------------------------------------------------------------------
(* Properties of the parser *)

Unmarked(l) == ~IsOptionLabel(l) /\ ~IsAnswerLine(l) /\ ~IsExplanationLine(l)

HasOptionLabelLine(ls) == \E k \in DOMAIN ls : IsOptionLabel(strip(ls[k]))

HasAnswerLine(ls) == \E k \in DOMAIN ls : IsAnswerLine(strip(ls[k]))

\* the set of block tags that occur in the options of a record
TagsOf(r) ==
    {i \in 1..6 : \E k \in DOMAIN r.options :
                      \E c \in DOMAIN r.options[k] : r.options[k][c] = Tag(i)}

WellFormedInputs ==
    {in \in Inputs : in.pre = <<>> /\ \A k \in DOMAIN in.shapes :
                                          in.shapes[k] \in WellFormedShapes}

\* C1: an output made of N well-formed numbered blocks parses to exactly N
\* records, in the order of the blocks, each with exactly 4 options.
C1_WellFormedBlocksParsed ==
    ppc = "done" =>
        \A in \in WellFormedInputs :
            Build(in) = raw_output =>
                /\ Len(mcqs) = Len(in.shapes)
                /\ \A k \in DOMAIN mcqs :
                      /\ Len(mcqs[k].options) = 4
                      /\ TagsOf(mcqs[k]) = {k}

\* the same statement for blocks whose text holds no digits-and-period
\* sequence, does not begin like an option label and has a non-blank answer
PlainInputs ==
    {in \in WellFormedInputs : \A k \in DOMAIN in.shapes :
                                   in.shapes[k] \in {"wf", "wf_dots"}}

PlainBlocksParsed ==
    ppc = "done" =>
        \A in \in PlainInputs :
            Build(in) = raw_output =>
                /\ Len(mcqs) = Len(in.shapes)
                /\ \A k \in DOMAIN mcqs :
                      /\ Len(mcqs[k].options) = 4
                      /\ TagsOf(mcqs[k]) = {k}

\* C2: every record returned has non-empty options and a non-empty answer, and
\* a block without an option-label line or without a 'Correct Answer:' line
\* adds no record.
C2_EmissionRule ==
    [][ /\ \A k \in DOMAIN mcqs' :
             mcqs'[k].options # <<>> /\ mcqs'[k].answer # <<>>
        /\ ( /\ ppc = "line" /\ li = Len(lines)
             /\ ~(HasOptionLabelLine(lines) /\ HasAnswerLine(lines)) )
           => mcqs' = mcqs ]_vars

\* a block with option lines and no answer line was read to its end after an
\* earlier block had produced a record, and it added none
C2_Witness ==
    /\ ppc = "block" /\ bi >= 2 /\ ~SkipBlock(block)
    /\ lines = split_lines(block) /\ li = Len(lines)
    /\ HasOptionLabelLine(lines) /\ ~HasAnswerLine(lines)
    /\ Len(mcqs) = 1

\* the parser state in which line k of a block is read, from the last marker
\* line before it
RECURSIVE StateBefore(_, _)
StateBefore(ls, k) ==
    IF k <= 1 THEN "scenario"
    ELSE LET l == strip(ls[k - 1]) IN
         IF IsOptionLabel(l) THEN "options"
         ELSE IF IsAnswerLine(l) THEN "answer"
         ELSE IF IsExplanationLine(l) THEN "explanation"
         ELSE StateBefore(ls, k - 1)

OptionLabelLines(ls, n) == {k \in 1..n : IsOptionLabel(strip(ls[k]))}

ContinuationLines(ls, n) ==
    {k \in 1..n : Unmarked(strip(ls[k])) /\ StateBefore(ls, k) = "options"}

\* C8, as stated: the entries of options are exactly the option-label lines.
C8_EntriesAreLabelLines ==
    ppc = "line" => Len(options) = Cardinality(OptionLabelLines(lines, li))

\* C8, amended: an unmarked line read in state options becomes an entry of its
\* own, so options holds one entry per option-label line and one per such line.
C8_EntriesPerLine ==
    ppc = "line" =>
        /\ Len(options) = Cardinality(OptionLabelLines(lines, li))
                          + Cardinality(ContinuationLines(lines, li))
        /\ \A k \in 1..li :
              k \in ContinuationLines(lines, li) =>
                  options[Cardinality(OptionLabelLines(lines, k))
                          + Cardinality(ContinuationLines(lines, k))] = strip(lines[k])

\* a block with an unmarked line after an option line was read to its end
C8_Witness ==
    /\ ppc = "line" /\ li = Len(lines)
    /\ ContinuationLines(lines, li) # {}
    /\ ShouldEmit(options, answer)

\* the value a field takes from its last marker line among the first n lines
FieldFrom(ls, n, marker) ==
    LET M == {k \in 1..n : ~IsOptionLabel(strip(ls[k])) /\ startswith(strip(ls[k]), marker)
                            /\ (marker = ExplanationMarker => ~IsAnswerLine(strip(ls[k])))}
    IN  IF M = {} THEN <<>>
        ELSE LET last == CHOOSE k \in M : \A j \in M : j <= k
             IN  strip(remove_all(strip(ls[last]), marker))

\* C9: an unmarked line read in state answer or explanation changes nothing,
\* so answer and explanation come from one marker line each.
C9_UnmarkedLinesDropped ==
    [][ /\ ( /\ ppc = "line" /\ li < Len(lines)
             /\ state \in {"answer", "explanation"}
             /\ Unmarked(strip(lines[li + 1])) )
           => UNCHANGED <<scenario, options, answer, explanation, state>>
        /\ ppc' = "line" =>
              /\ answer' = FieldFrom(lines', li', CorrectAnswerMarker)
              /\ explanation' = FieldFrom(lines', li', ExplanationMarker) ]_vars

\* a non-blank unmarked line has just been read in state explanation
C9_Witness ==
    /\ ppc = "line" /\ li >= 2
    /\ state = "explanation"
    /\ Unmarked(strip(lines[li])) /\ strip(lines[li]) # <<>>
    /\ StateBefore(lines, li) = "explanation"

----------------------------------------------------------------------------
(* Properties of the pipeline *)

Called(f) == \E k \in DOMAIN calls : calls[k] = f

Showed(m) == \E k \in DOMAIN ui : ui[k] = m

\* C3, as stated: normalizing the normalized text gives the same text.
C3_Idempotent == Called("truncate_text") => normalize(text) = text

\* C3, amended: the same, unless the cut at the budget left a space at the
\* end of the text; then the second pass removes that space and nothing else.
C3_IdempotentUnlessCutAtSpace ==
    Called("truncate_text") =>
        IF text # <<>> /\ TLast(text) = " "
        THEN TLen(text) = MAX_TOKENS /\ normalize(text) = TDropLast(text)
        ELSE normalize(text) = text

\* a text with runs of whitespace was collapsed, and cut at the budget in the
\* middle of a word
C3_Witness ==
    /\ Called("truncate_text")
    /\ TLen(text) = MAX_TOKENS
    /\ TLast(text) # " "
    /\ TLen(clean_text(extract_text_from_pdf(pdf_file).text)) > MAX_TOKENS
    /\ clean_text(extract_text_from_pdf(pdf_file).text)
          # extract_text_from_pdf(pdf_file).text

\* the text of every page, in page order, each page once
PagesText(pdf) == AddPages(<<>>, pdf.pages, 1, Len(pdf.pages))

\* C4: the extractor returns the pages' text in page order, each page once,
\* whichever strategy produced it.
C4_EachPageOnce == pc = "normalize" => text = PagesText(pdf_file)

\* C5: no failure ends a run with an unhandled exception; every run ends idle
\* with a message on the page.
C5_FailuresHandled ==
    /\ pc # "crashed"
    /\ pc = "idle" => ui # <<>>

NoCredential == Falsy(secrets) /\ Falsy(env)

C7_RawOutputFallback ==
    (pc = "idle" /\ ~Falsy(output)) =>
        IF mcqs = <<>>
        THEN /\ Called("parse_mcqs")
             /\ shown.code = output
             /\ shown.expanders = <<>> /\ shown.downloads = <<>>
             /\ Showed("code") /\ ~Showed("expanders") /\ ~Showed("download:md")
        ELSE /\ shown.code = None /\ ~Showed("code")
             /\ Len(shown.expanders) = Len(mcqs)
             /\ \A k \in DOMAIN mcqs : shown.expanders[k].scenario = mcqs[k].scenario
             /\ Len(shown.downloads) = 2
             /\ Showed("expanders")

\* a run ended on the fallback: content without a numbered marker
C7_Witness ==
    /\ pc = "idle" /\ ~Falsy(output)
    /\ NextMatch(output, 1) = 0
    /\ mcqs = <<>> /\ shown.code = output

PipelineOrder ==
    <<"extract_text_from_pdf", "clean_text", "truncate_text", "build_prompt",
      "call_groq_api", "parse_mcqs", "render">>

\* C10: the steps of a run come in the order extract, normalize, prompt,
\* call, parse, render, each at most once; the call needs 100 characters of
\* text, parse and render need content; too little text is reported and
\* nothing after it runs.
C10_PipelineOrder ==
    /\ Len(calls) <= Len(PipelineOrder)
    /\ calls = SubSeq(PipelineOrder, 1, Len(calls))
    /\ net <= 1
    /\ Called("call_groq_api") => TLen(text) >= MinTextLen
    /\ Called("build_prompt") => prompt.text = text
    /\ Called("parse_mcqs") => (net = 1 /\ ~Falsy(output))
    /\ pc = "render" => Called("parse_mcqs")
    /\ (pc = "idle" /\ Called("truncate_text") /\ TLen(text) < MinTextLen) =>
          /\ Showed("error:insufficient")
          /\ calls = SubSeq(PipelineOrder, 1, 3)
          /\ net = 0 /\ mcqs = <<>> /\ shown = NothingShown

\* a run went through every step
C10_Witness == pc = "idle" /\ calls = PipelineOrder /\ shown.expanders # <<>>

====
